---- MODULE Spec2Model ----
(***************************************************************************)
(* Model of investor_match_mvp.py: the URL fetcher, the regular-expression *)
(* extractor, the sqlite store and the Streamlit script that ties them     *)
(* together.  Texts are TLA+ strings; the regular expressions are          *)
(* evaluated character by character with Python's leftmost, ordered,       *)
(* greedy/lazy backtracking semantics.                                     *)
(***************************************************************************)
EXTENDS Integers, Sequences, FiniteSets, TLC

\* ------------------------------------------------------------------------
\* Bounds of the model
\* ------------------------------------------------------------------------

\* Largest number of fragments concatenated into one extractor input text.
MaxFrags == 3

\* Largest number of lines typed into the URL text area.
MaxLines == 2

\* Largest number of script runs (user interactions) in one behaviour.
MaxRuns == 3

\* ------------------------------------------------------------------------
\* Strings and characters
\* ------------------------------------------------------------------------

Min(S) == CHOOSE x \in S : \A y \in S : x <= y

Max(S) == CHOOSE x \in S : \A y \in S : x >= y

\* The i-th character of s as a one-character string; "" outside of s.
Ch(s, i) == IF i >= 1 /\ i <= Len(s) THEN SubSeq(s, i, i) ELSE ""

\* w occurs in s at position i.
StartsAt(s, i, w) == i >= 1 /\ i + Len(w) - 1 <= Len(s) /\ SubSeq(s, i, i + Len(w) - 1) = w

\* Python's `needle in hay`.
Contains(hay, needle) == \E i \in 1..(Len(hay) - Len(needle) + 1) : StartsAt(hay, i, needle)

UpperChars == "ABCDEFGHIJKLMNOPQRSTUVWXYZ"

LowerChars == "abcdefghijklmnopqrstuvwxyz"

DigitChars == "0123456789"

CharsOf(s) == {Ch(s, i) : i \in 1..Len(s)}

UpperSet == CharsOf(UpperChars)

LetterSet == CharsOf(UpperChars) \cup CharsOf(LowerChars)

NumSet == CharsOf(DigitChars) \cup {",", "."}

\* [A-Z]
IsUpper(c) == c \in UpperSet

\* [a-zA-Z]
IsLetter(c) == c \in LetterSet

\* [\d,.]
IsNum(c) == c \in NumSet

\* \s
IsSpace(c) == c \in {" ", "\n", "\t", "\r", "\f"}

\* . (any character but a line break)
IsDot(c) == c # "" /\ c # "\n"

LowerCh(c) ==
    IF IsUpper(c)
    THEN Ch(LowerChars, CHOOSE k \in 1..26 : Ch(UpperChars, k) = c)
    ELSE c

RECURSIVE LowerFrom(_, _)
LowerFrom(s, i) == IF i > Len(s) THEN "" ELSE LowerCh(Ch(s, i)) \o LowerFrom(s, i + 1)

\* str.lower()
lower(s) == LowerFrom(s, 1)

\* The position after the longest run of characters of the class that starts
\* at i (i itself when the character at i is not in the class): a greedy *.
RunEnd(s, i, class) ==
    LET stops == {j \in i..Len(s) : Ch(s, j) \notin class}
    IN  IF stops = {} THEN Len(s) + 1 ELSE Min(stops)

\* str.strip()
strip(s) ==
    LET keep == {i \in 1..Len(s) : ~IsSpace(Ch(s, i))}
    IN  IF keep = {} THEN "" ELSE SubSeq(s, Min(keep), Max(keep))

RECURSIVE join(_, _)
\* sep.join(list)
join(sep, list) ==
    IF list = <<>> THEN ""
    ELSE IF Len(list) = 1 THEN list[1]
    ELSE list[1] \o sep \o join(sep, Tail(list))

\* Python's None, for the two optional fields.  No regular expression of the
\* extractor can return this text: a ticket size starts with "$" and a fund
\* size is one of the four unit words.
None == "None"

\* ------------------------------------------------------------------------
\* MODULE 2: the extractor's patterns
\* ------------------------------------------------------------------------

\* The alternation closing fund_pattern, in the pattern's order.
fund_suffixes == <<"Capital", "Ventures", "Partners", "Group", "Investments", "Fund", "Advisors">>

\* The cue-word alternation opening ticket_keywords, in the pattern's order.
ticket_cues == <<"cheque", "check", "ticket", "initial investment", "typical investment", "writes">>

\* The unit alternation of ticket_keywords, in the pattern's order.
ticket_units == <<"million", "M", "billion", "B">>

\* The unit alternation of fund_size_pattern, in the pattern's order.
fund_size_units == <<"million", "billion", "M", "B">>

\* The ASCII members of the character class between the two amounts of a
\* range in ticket_keywords.  The class also lists three non-ASCII
\* characters; every text of this model is ASCII, so they never occur.
range_class == {"-", "t", "o"}

stage_keywords == <<"seed", "early-stage", "growth-stage", "late-stage", "Series A", "Series B">>

sector_keywords == <<"consumer tech", "fintech", "edtech", "healthtech", "sustainability", "AI", "crypto">>

geography_keywords == <<"India", "Southeast Asia", "Singapore", "Indonesia", "Asia">>

\* The end (position after the match) of fund_pattern matched at position i
\* of text, 0 when it does not match there:
\*   [A-Z][a-zA-Z]+\s(?:Capital|...|Advisors)
\* The greedy letter run gives back characters until the rest matches, so the
\* longest run that lets the rest match is the one taken; the suffix is the
\* first alternative that matches.
FundMatchEnd(text, i) ==
    IF ~IsUpper(Ch(text, i)) THEN 0
    ELSE LET e  == RunEnd(text, i + 1, LetterSet)
             SuffixEnd(p) ==
                 LET ms == {n \in 1..Len(fund_suffixes) : StartsAt(text, p, fund_suffixes[n])}
                 IN  IF ms = {} THEN 0 ELSE p + Len(fund_suffixes[Min(ms)])
             ks == {k \in (i + 2)..e : IsSpace(Ch(text, k)) /\ SuffixEnd(k + 1) # 0}
         IN  IF ks = {} THEN 0 ELSE SuffixEnd(Max(ks) + 1)

RECURSIVE FindFundsFrom(_, _)
\* re.findall scanning from position i: leftmost matches, not overlapping.
FindFundsFrom(text, i) ==
    IF i > Len(text) THEN <<>>
    ELSE LET e == FundMatchEnd(text, i)
         IN  IF e # 0
             THEN <<SubSeq(text, i, e - 1)>> \o FindFundsFrom(text, e)
             ELSE FindFundsFrom(text, i + 1)

\* re.findall(fund_pattern, text): the pattern has one group, the whole match.
fund_pattern(text) == FindFundsFrom(text, 1)

\* The lazy .*? followed by \$[\d,.]+ : the first "$" with an amount character
\* after it, at or after position p, with no line break in between; 0 if none.
AmountStart(text, p) ==
    LET js == {j \in p..Len(text) :
                  /\ Ch(text, j) = "$"
                  /\ IsNum(Ch(text, j + 1))
                  /\ \A x \in p..(j - 1) : IsDot(Ch(text, x))}
    IN  IF js = {} THEN 0 ELSE Min(js)

\* One way through the optional range group (?:\s?[-to..]\s?\$?[\d,.]+)? at
\* position p of the lowered text: s1, s2 and d say whether the first \s?, the
\* second \s? and the \$? take a character.  The end of the group, 0 if this
\* way does not match.
RangeTry(lt, p, s1, s2, d) ==
    IF /\ (s1 = 1 => IsSpace(Ch(lt, p)))
       /\ Ch(lt, p + s1) \in range_class
       /\ (s2 = 1 => IsSpace(Ch(lt, p + s1 + 1)))
       /\ (d = 1 => Ch(lt, p + s1 + 1 + s2) = "$")
       /\ IsNum(Ch(lt, p + s1 + 1 + s2 + d))
    THEN RunEnd(lt, p + s1 + 1 + s2 + d, NumSet)
    ELSE 0

\* The ways through the range group in the order the greedy ?s try them.
RangeWays == << <<1, 1, 1>>, <<1, 1, 0>>, <<1, 0, 1>>, <<1, 0, 0>>,
                <<0, 1, 1>>, <<0, 1, 0>>, <<0, 0, 1>>, <<0, 0, 0>> >>

\* The end of the range group at p: the first way that matches, or p itself
\* (the group is optional).
RangeEnd(lt, p) ==
    LET ok == {n \in 1..Len(RangeWays) :
                  RangeTry(lt, p, RangeWays[n][1], RangeWays[n][2], RangeWays[n][3]) # 0}
        w  == RangeWays[Min(ok)]
    IN  IF ok = {} THEN p ELSE RangeTry(lt, p, w[1], w[2], w[3])

\* The end of the optional unit group (?:\s?(million|M|billion|B))? of
\* ticket_keywords at p, matched under (?i) against the lowered text: with
\* the space first, then without, the alternatives in order.
TicketUnitEnd(lt, p) ==
    LET Alt(q) == {n \in 1..Len(ticket_units) : StartsAt(lt, q, lower(ticket_units[n]))}
    IN  IF IsSpace(Ch(lt, p)) /\ Alt(p + 1) # {}
        THEN p + 1 + Len(ticket_units[Min(Alt(p + 1))])
        ELSE IF Alt(p) # {}
        THEN p + Len(ticket_units[Min(Alt(p))])
        ELSE p

\* The end of group 2 of ticket_keywords, whose "$" is at position j.
TicketAmountEnd(lt, j) == TicketUnitEnd(lt, RangeEnd(lt, RunEnd(lt, j + 1, NumSet)))

\* re.findall(ticket_keywords, text)[0][1], None when there is no match: the
\* leftmost position at which a cue word (case-insensitively) is followed on
\* the same line by a dollar amount; group 2 is that amount.
ticket_keywords(text) ==
    LET lt == lower(text)
        Cue(i) == {n \in 1..Len(ticket_cues) :
                      /\ StartsAt(lt, i, ticket_cues[n])
                      /\ AmountStart(text, i + Len(ticket_cues[n])) # 0}
        starts == {i \in 1..Len(text) : Cue(i) # {}}
    IN  IF starts = {} THEN None
        ELSE LET i == Min(starts)
                 j == AmountStart(text, i + Len(ticket_cues[Min(Cue(i))]))
             IN  SubSeq(text, j, TicketAmountEnd(lt, j) - 1)

\* The lookahead (?=.*?fund) at position p: "fund" starts at or after p with
\* no line break before it.
FundAhead(text, p) ==
    \E f \in p..Len(text) : StartsAt(text, f, "fund") /\ \A x \in p..(f - 1) : IsDot(Ch(text, x))

\* fund_size_pattern matched at position i (case-sensitively):
\*   \$[\d,.]+(?:\s?(million|billion|M|B))(?=.*?fund)
\* <<end of the match, index of the unit alternative>>, <<0, 0>> when it does
\* not match.  Preference: the longest amount run, the space taken, the first
\* unit alternative.
FundSizeMatch(text, i) ==
    IF Ch(text, i) # "$" \/ ~IsNum(Ch(text, i + 1)) THEN <<0, 0>>
    ELSE LET e == RunEnd(text, i + 1, NumSet)
             Ok(k, s, n) ==
                 /\ (s = 1 => IsSpace(Ch(text, k)))
                 /\ StartsAt(text, k + s, fund_size_units[n])
                 /\ FundAhead(text, k + s + Len(fund_size_units[n]))
             ways == {w \in ((i + 2)..e) \X {0, 1} \X (1..Len(fund_size_units)) : Ok(w[1], w[2], w[3])}
             Better(a, b) ==
                 \/ a[1] > b[1]
                 \/ a[1] = b[1] /\ a[2] > b[2]
                 \/ a[1] = b[1] /\ a[2] = b[2] /\ a[3] <= b[3]
         IN  IF ways = {} THEN <<0, 0>>
             ELSE LET w == CHOOSE a \in ways : \A b \in ways : Better(a, b)
                  IN  <<w[1] + w[2] + Len(fund_size_units[w[3]]), w[3]>>

\* The position of the first match of fund_size_pattern in text, 0 if none.
FundSizeStart(text) ==
    LET starts == {i \in 1..Len(text) : FundSizeMatch(text, i)[1] # 0}
    IN  IF starts = {} THEN 0 ELSE Min(starts)

\* re.findall(fund_size_pattern, text)[0], None when there is no match.  The
\* pattern has one group, the unit, so findall returns the unit of each match.
fund_size_pattern(text) ==
    LET i == FundSizeStart(text)
    IN  IF i = 0 THEN None ELSE fund_size_units[FundSizeMatch(text, i)[2]]

\* [s for s in keywords if s.lower() in text.lower()]
KeywordHits(keywords, text) ==
    LET lt == lower(text)
    IN  SelectSeq(keywords, LAMBDA s : Contains(lt, lower(s)))

\* ------------------------------------------------------------------------
\* MODULE 2: extract_data_from_text
\* ------------------------------------------------------------------------

Range(f) == {f[x] : x \in DOMAIN f}

\* The orderings of a finite set: a list built from a set has its elements in
\* an order the program does not control.
Perms(S) == {f \in [1..Cardinality(S) -> S] : Range(f) = S}

\* A faulty variant of funds, which the properties must reject: the list of
\* matches as found, without the pass through a set.
funds_without_set(text) == {fund_pattern(text)}

\* funds = list(set(re.findall(fund_pattern, text))): the possible lists.
funds(text) == Perms(Range(fund_pattern(text)))

\* The entry built for one fund; every entry of a call gets the same values
\* but the fund.  The timestamp is the clock reading, in whole seconds.
entry(fund, text, url, clock) ==
    [fund        |-> fund,
     ticket_size |-> ticket_keywords(text),
     fund_size   |-> fund_size_pattern(text),
     sectors     |-> join(", ", KeywordHits(sector_keywords, text)),
     geographies |-> join(", ", KeywordHits(geography_keywords, text)),
     stage       |-> join(", ", KeywordHits(stage_keywords, text)),
     source      |-> url,
     timestamp   |-> clock]

\* extract_data_from_text(text, url) when list(set(...)) came out as fundlist.
extract_data_from_text(text, url, fundlist, clock) ==
    LET e == entry("", text, url, clock)
    IN  [n \in 1..Len(fundlist) |-> [e EXCEPT !.fund = fundlist[n]]]

\* ------------------------------------------------------------------------
\* MODULE 3: the investors table
\* ------------------------------------------------------------------------

\* investors.db before init_db ever ran: no table.
NoTable == [exists |-> FALSE, rows |-> <<>>, seq |-> 0]

\* A faulty variant of init_db, which the properties must reject: the table
\* is created anew on every run.
init_db_recreate(d) == [exists |-> TRUE, rows |-> <<>>, seq |-> 0]

\* CREATE TABLE IF NOT EXISTS investors (id INTEGER PRIMARY KEY AUTOINCREMENT, ...)
init_db(d) == IF d.exists THEN d ELSE [exists |-> TRUE, rows |-> <<>>, seq |-> 0]

\* The row an INSERT adds for entry e: AUTOINCREMENT gives it an id one above
\* the largest id the table ever held.
Row(e, id) ==
    [id |-> id, fund |-> e.fund, ticket_size |-> e.ticket_size, fund_size |-> e.fund_size,
     sectors |-> e.sectors, geographies |-> e.geographies, stage |-> e.stage,
     source |-> e.source, timestamp |-> e.timestamp]

\* A faulty variant of insert_data_to_db, which the properties must reject:
\* an entry whose fund and source the table already holds is not inserted.
insert_or_ignore(d, entries) ==
    LET fresh == SelectSeq(entries, LAMBDA e :
                     ~\E n \in 1..Len(d.rows) :
                         d.rows[n].fund = e.fund /\ d.rows[n].source = e.source)
    IN  [d EXCEPT !.rows = @ \o [n \in 1..Len(fresh) |-> Row(fresh[n], d.seq + n)],
                  !.seq  = @ + Len(fresh)]

\* insert_data_to_db(entries) running to its commit.
insert_data_to_db(d, entries) ==
    [d EXCEPT !.rows = @ \o [n \in 1..Len(entries) |-> Row(entries[n], d.seq + n)],
              !.seq  = @ + Len(entries)]

\* A faulty variant of insert_raises, which the properties must reject: the
\* whole run is one transaction, undone when an insert raises.
insert_raises_rollback(d, d0) == [d EXCEPT !.rows = d0.rows, !.seq = d0.seq]

\* insert_data_to_db raising before its commit, while the interaction began
\* with the database as d0: the connection is dropped uncommitted, so the
\* rows of this call are lost and the database is as the earlier calls'
\* commits left it.
insert_raises(d, d0) == d

\* ------------------------------------------------------------------------
\* MODULE 1: fetch_articles_from_user_input
\* ------------------------------------------------------------------------

\* The lines a user can type into the text area.
LineChoices == {"", "http://a", " http://b "}

RECURSIVE SeqsUpTo(_, _)
\* The sequences over S of length at most n.
SeqsUpTo(S, n) ==
    IF n = 0 THEN {<<>>}
    ELSE LET shorter == SeqsUpTo(S, n - 1)
         IN  shorter \cup {Append(q, x) : q \in shorter, x \in S}

\* The contents the text area can have.
UrlInputs == {join("\n", ls) : ls \in SeqsUpTo(LineChoices, MaxLines)}

RECURSIVE SplitFrom(_, _, _)
\* The pieces of s from position i on, cut at each sep character.
SplitFrom(s, i, sep) ==
    LET cuts == {j \in i..Len(s) : Ch(s, j) = sep}
    IN  IF cuts = {} THEN <<SubSeq(s, i, Len(s))>>
        ELSE <<SubSeq(s, i, Min(cuts) - 1)>> \o SplitFrom(s, Min(cuts) + 1, sep)

\* str.splitlines() for "\n" line breaks: a line break at the very end opens
\* no further line, and the empty string has no line.
splitlines(s) ==
    LET pieces == SplitFrom(s, 1, "\n")
    IN  IF pieces[Len(pieces)] = "" THEN SubSeq(pieces, 1, Len(pieces) - 1) ELSE pieces

RECURSIVE StripAll(_)
StripAll(ls) == IF ls = <<>> THEN <<>> ELSE <<strip(Head(ls))>> \o StripAll(Tail(ls))

RECURSIVE Unique(_)
Unique(q) ==
    IF q = <<>> THEN <<>>
    ELSE LET rest == Unique(SubSeq(q, 1, Len(q) - 1))
         IN  IF q[Len(q)] \in Range(rest) THEN rest ELSE Append(rest, q[Len(q)])

\* A faulty variant of urls_of, which the properties must reject: a URL that
\* is listed twice is kept once.
urls_of_unique(input) == Unique(SelectSeq(StripAll(splitlines(input)), LAMBDA u : u # ""))

\* urls = [url.strip() for url in url_input.splitlines() if url.strip()]
urls_of(input) == SelectSeq(StripAll(splitlines(input)), LAMBDA u : u # "")

\* What requests.get and BeautifulSoup give for a URL: an exception, or the
\* page's paragraphs joined by spaces.
Failed == "<exception>"

\* The page texts a URL may serve when the request succeeds.
Served(url) ==
    IF url = "http://a"
    THEN {"Accel Partners, Tiger Ventures: $9M fund, AI, Southeast Asia"}
    ELSE {"Asia Fund writes $1-$2M cheques, fintech", "fintech, India"}

\* A faulty variant of fetch_step, which the properties must reject: the
\* append is outside the try block, so a URL that fails still gives an
\* article, with no text.
fetch_step_no_skip(loop, url, outcome) ==
    IF outcome = Failed
    THEN [loop EXCEPT !.i = @ + 1, !.warnings = Append(@, url),
                      !.articles = Append(@, [url |-> url, text |-> ""])]
    ELSE [loop EXCEPT !.i = @ + 1, !.articles = Append(@, [url |-> url, text |-> outcome])]

\* One pass of the for loop over urls: the try block appends the article, the
\* except block warns and goes on to the next URL.
fetch_step(loop, url, outcome) ==
    IF outcome = Failed
    THEN [loop EXCEPT !.i = @ + 1, !.warnings = Append(@, url)]
    ELSE [loop EXCEPT !.i = @ + 1, !.articles = Append(@, [url |-> url, text |-> outcome])]

\* ------------------------------------------------------------------------
\* MODULE 4: streamlit_ui
\* ------------------------------------------------------------------------

\* df[column].dropna().unique(): the values the multiselect offers.
unique(rows, column) == {rows[n][column] : n \in 1..Len(rows)}

\* '|'.join(selected), for a selection given as a set: the search below does
\* not depend on the order of the alternatives.
JoinedPattern(selected) ==
    join("|", CHOOSE q \in [1..Cardinality(selected) -> selected] : Range(q) = selected)

\* Series.str.contains(pattern): a regular-expression search.  The values the
\* extractor writes hold letters, spaces, commas and hyphens only, so a
\* pattern joined from them is an alternation of literal texts.
str_contains(field, pattern) ==
    LET alts == SplitFrom(pattern, 1, "|")
    IN  \E n \in 1..Len(alts) : Contains(field, alts[n])

\* A faulty variant of apply_filters, which the properties must reject: a row
\* is kept when its field equals a selected value, not when it contains one.
apply_filters_exact(rows, sector_filter, geo_filter) ==
    LET by_sector == IF sector_filter # {}
                     THEN SelectSeq(rows, LAMBDA r : r.sectors \in sector_filter)
                     ELSE rows
    IN  IF geo_filter # {}
        THEN SelectSeq(by_sector, LAMBDA r : r.geographies \in geo_filter)
        ELSE by_sector

\* Lines 111-114: the two optional filters.
apply_filters(rows, sector_filter, geo_filter) ==
    LET by_sector == IF sector_filter # {}
                     THEN SelectSeq(rows, LAMBDA r : str_contains(r.sectors, JoinedPattern(sector_filter)))
                     ELSE rows
    IN  IF geo_filter # {}
        THEN SelectSeq(by_sector, LAMBDA r : str_contains(r.geographies, JoinedPattern(geo_filter)))
        ELSE by_sector

\* Lines 116-118: the source becomes a link and the id column is dropped.
shown(r) ==
    [fund |-> r.fund, ticket_size |-> r.ticket_size, fund_size |-> r.fund_size,
     sectors |-> r.sectors, geographies |-> r.geographies, stage |-> r.stage,
     source |-> "[Link](" \o r.source \o ")", timestamp |-> r.timestamp]

\* st.dataframe(...) of the filtered frame.
dataframe(rows, sector_filter, geo_filter) ==
    LET df == apply_filters(rows, sector_filter, geo_filter)
    IN  [n \in 1..Len(df) |-> shown(df[n])]

\* ------------------------------------------------------------------------
\* State
\* ------------------------------------------------------------------------

VARIABLES
    db,             \* investors.db: [exists, rows, seq (the AUTOINCREMENT counter)]
    url_input,      \* the text of the sidebar text area
    sector_filter,  \* the values selected in "Filter by Sector"
    geo_filter,     \* the values selected in "Filter by Geography"
    sector_options, \* the values "Filter by Sector" offers
    geo_options,    \* the values "Filter by Geography" offers
    pc,             \* where the script is: start, fetch, extract, idle, crashed
    now,            \* the wall clock; it advances by one between two runs
    urls,           \* fetch_articles_from_user_input: urls
    loop,           \* its for loop: [i, articles, warnings]
    k,              \* streamlit_ui: the index of the article of the for loop
    displayed,      \* the table on the page, NotShown while there is none
    db0,            \* history: the database when the current run began
    trigger,        \* history: what began the current run: load, urls, filter
    outcomes,       \* history: per URL of the current run, "ok" or "fail"
    log,            \* history: per article of the current run, the entries inserted
    in_text,        \* a single call of extract_data_from_text: its text
    in_url,         \* ... its url
    out             \* ... its result

vars == <<db, url_input, sector_filter, geo_filter, sector_options, geo_options, pc, now,
          urls, loop, k, displayed, db0, trigger, outcomes, log, in_text, in_url, out>>

callVars == <<in_text, in_url, out>>

uiVars == <<db, url_input, sector_filter, geo_filter, sector_options, geo_options, now,
            urls, loop, k, displayed, db0, trigger, outcomes, log>>

NotShown == <<"not shown">>

EmptyLoop == [i |-> 1, articles |-> <<>>, warnings |-> <<>>]

\* Before the page is first loaded: no database file, an empty text area.
UiInit ==
    /\ db = NoTable
    /\ url_input = ""
    /\ sector_filter = {}
    /\ geo_filter = {}
    /\ sector_options = {}
    /\ geo_options = {}
    /\ now = 0
    /\ urls = <<>>
    /\ loop = EmptyLoop
    /\ k = 1
    /\ displayed = NotShown
    /\ db0 = NoTable
    /\ trigger = "none"
    /\ outcomes = <<>>
    /\ log = <<>>

Init ==
    /\ UiInit
    /\ pc = "start"
    /\ in_text = ""
    /\ in_url = ""
    /\ out = <<>>

\* ------------------------------------------------------------------------
\* The script, run from the top on every user action
\* ------------------------------------------------------------------------

\* Lines 98-100 up to the for loop of the fetcher: the page of the last run
\* is gone, init_db has run, the text area has been read.
Rerun(why, input, sectors, geos) ==
    /\ now < MaxRuns
    /\ now' = now + 1
    /\ trigger' = why
    /\ db0' = db
    /\ db' = init_db(db)
    /\ url_input' = input
    /\ sector_filter' = sectors
    /\ geo_filter' = geos
    /\ urls' = urls_of(input)
    /\ loop' = EmptyLoop
    /\ k' = 1
    /\ outcomes' = <<>>
    /\ log' = <<>>
    /\ displayed' = NotShown
    /\ pc' = "fetch"
    /\ UNCHANGED <<sector_options, geo_options, callVars>>

\* The page is opened: every widget has its default.
Load ==
    /\ pc = "start"
    /\ Rerun("load", "", {}, {})

\* The user changes the text area.  After a run that ended in an exception
\* the filters were not drawn, and start again from their default.
EditUrls ==
    /\ pc \in {"idle", "crashed"}
    /\ \E input \in UrlInputs \ {url_input} :
          Rerun("urls", input,
                IF pc = "idle" THEN sector_filter ELSE {},
                IF pc = "idle" THEN geo_filter ELSE {})

\* The user changes a filter, choosing among the values offered; the text
\* area keeps its text.
ChangeFilters ==
    /\ pc = "idle"
    /\ \E sectors \in SUBSET sector_options, geos \in SUBSET geo_options :
          /\ <<sectors, geos>> # <<sector_filter, geo_filter>>
          /\ Rerun("filter", url_input, sectors, geos)

\* Lines 20-28 for the next URL: the request and the parse succeed with some
\* page text, or raise.
Fetch ==
    /\ pc = "fetch"
    /\ loop.i <= Len(urls)
    /\ \E outcome \in Served(urls[loop.i]) \cup {Failed} :
          /\ loop' = fetch_step(loop, urls[loop.i], outcome)
          /\ outcomes' = Append(outcomes, IF outcome = Failed THEN "fail" ELSE "ok")
    /\ UNCHANGED <<db, url_input, sector_filter, geo_filter, sector_options, geo_options, pc,
                   now, urls, k, displayed, db0, trigger, log, callVars>>

\* Line 29: return articles.
ReturnArticles ==
    /\ pc = "fetch"
    /\ loop.i > Len(urls)
    /\ pc' = "extract"
    /\ UNCHANGED <<uiVars, callVars>>

\* Lines 101-103 for the next article, the insert committing.
ProcessArticle ==
    /\ pc = "extract"
    /\ k <= Len(loop.articles)
    /\ \E fundlist \in funds(loop.articles[k].text) :
          LET extracted == extract_data_from_text(loop.articles[k].text, loop.articles[k].url,
                                                  fundlist, now)
          IN  /\ db' = insert_data_to_db(db, extracted)
              /\ log' = Append(log, extracted)
    /\ k' = k + 1
    /\ UNCHANGED <<url_input, sector_filter, geo_filter, sector_options, geo_options, pc, now,
                   urls, loop, displayed, db0, trigger, outcomes, callVars>>

\* Lines 101-103 for the next article, the insert raising (the file cannot be
\* opened or written): nothing catches it, the run ends there.
StorageFailure ==
    /\ pc = "extract"
    /\ k <= Len(loop.articles)
    /\ db' = insert_raises(db, db0)
    /\ pc' = "crashed"
    /\ UNCHANGED <<url_input, sector_filter, geo_filter, sector_options, geo_options, now,
                   urls, loop, k, displayed, db0, trigger, outcomes, log, callVars>>

\* Lines 105-119: read the table, offer its values, filter, show.
Render ==
    /\ pc = "extract"
    /\ k > Len(loop.articles)
    /\ sector_options' = unique(db.rows, "sectors")
    /\ geo_options' = unique(db.rows, "geographies")
    /\ displayed' = dataframe(db.rows, sector_filter, geo_filter)
    /\ pc' = "idle"
    /\ UNCHANGED <<db, url_input, sector_filter, geo_filter, now, urls, loop, k, db0, trigger,
                   outcomes, log, callVars>>

Next ==
    \/ Load
    \/ EditUrls
    \/ ChangeFilters
    \/ Fetch
    \/ ReturnArticles
    \/ ProcessArticle
    \/ StorageFailure
    \/ Render

Spec == Init /\ [][Next]_vars

\* ------------------------------------------------------------------------
\* extract_data_from_text on its own: one call on a bounded set of texts
\* ------------------------------------------------------------------------

ExampleText == "Sequoia Capital writes cheques of $500,000 to $1 million in seed fintech startups in India"

\* The pieces the input texts are put together from.
Fragments ==
    {"Sequoia Capital",
     " and Accel Partners",
     " writes cheques of $500,000 to $1 million",
     " with a typical investment of $1-$2M",
     " raised a $100 million fund",
     " in seed fintech startups in India",
     "\n"}

RECURSIVE Concat(_)
Concat(pieces) == IF pieces = <<>> THEN "" ELSE Head(pieces) \o Concat(Tail(pieces))

Texts == {ExampleText} \cup {Concat(pieces) : pieces \in SeqsUpTo(Fragments, MaxFrags)}

ExtractInit ==
    /\ UiInit
    /\ pc = "call"
    /\ in_text \in Texts
    /\ in_url \in {"http://a", "http://b"}
    /\ out = <<>>

\* Lines 33-61, called with in_text and in_url.
ExtractCall ==
    /\ pc = "call"
    /\ \E fundlist \in funds(in_text) :
          out' = extract_data_from_text(in_text, in_url, fundlist, now)
    /\ pc' = "returned"
    /\ UNCHANGED <<uiVars, in_text, in_url>>

ExtractNext == ExtractCall

SpecExtract == ExtractInit /\ [][ExtractNext]_vars

\* ------------------------------------------------------------------------
\* Properties
\* ------------------------------------------------------------------------

RECURSIVE Flatten(_)
\* The concatenation of a sequence of sequences.
Flatten(lists) == IF lists = <<>> THEN <<>> ELSE Head(lists) \o Flatten(Tail(lists))

RECURSIVE Pick(_, _, _)
\* The URLs, in order, whose outcome (so far) is `what`.
Pick(us, os, what) ==
    IF os = <<>> THEN <<>>
    ELSE (IF Head(os) = what THEN <<Head(us)>> ELSE <<>>) \o Pick(Tail(us), Tail(os), what)

ArticleUrls == [n \in 1..Len(loop.articles) |-> loop.articles[n].url]

\* The number of lines of the text area that hold more than blanks.
NonBlankCount(input) ==
    LET lines == splitlines(input)
    IN  Cardinality({n \in 1..Len(lines) : \E c \in 1..Len(lines[n]) : ~IsSpace(Ch(lines[n], c))})

\* The rows the table holds once `entries` are appended to database d.
RowsAfter(d, entries) == d.rows \o [n \in 1..Len(entries) |-> Row(entries[n], d.seq + n)]

\* C1: a call of extract_data_from_text returns exactly one record per
\* distinct fund name that fund_pattern finds in the text (none when it finds
\* none), no fund name twice, and its records agree on ticket_size,
\* fund_size, sectors, geographies and stage and carry the url given.
C1_OneRecordPerFund ==
    pc = "returned" =>
        LET names == Range(fund_pattern(in_text))
        IN  /\ Len(out) = Cardinality(names)
            /\ {out[n].fund : n \in 1..Len(out)} = names
            /\ \A m, n \in 1..Len(out) :
                  /\ (m # n => out[m].fund # out[n].fund)
                  /\ out[m].ticket_size = out[n].ticket_size
                  /\ out[m].fund_size = out[n].fund_size
                  /\ out[m].sectors = out[n].sectors
                  /\ out[m].geographies = out[n].geographies
                  /\ out[m].stage = out[n].stage
            /\ \A n \in 1..Len(out) : out[n].source = in_url

\* A text that names one fund twice and another once gave two records.
C1_Witness ==
    /\ pc = "returned"
    /\ Len(fund_pattern(in_text)) = 3
    /\ Len(out) = 2
    /\ out[1].fund # out[2].fund
    /\ out[1].source = in_url

\* C2: the fetcher never ends the run: each URL that fails is skipped with
\* one warning, every URL is processed, and the articles returned are those
\* of the URLs that succeeded, in the order of the input.
C2_FetcherSkipsFailures ==
    /\ (pc = "fetch" => Len(outcomes) = loop.i - 1)
    /\ (pc \in {"extract", "idle", "crashed"} => Len(outcomes) = Len(urls))
    /\ ArticleUrls = Pick(urls, outcomes, "ok")
    /\ loop.warnings = Pick(urls, outcomes, "fail")

\* The first URL failed, the second was fetched, and the fetcher returned.
C2_Witness ==
    /\ pc = "extract"
    /\ outcomes = <<"fail", "ok">>
    /\ Len(loop.articles) = 1

\* C3: a run begun by a change of the filters alone leaves the table as it
\* was.
C3_FilterLeavesStore == trigger = "filter" => db.rows = db0.rows

\* C4: no step removes, changes or reorders a row of the table, and a row
\* that is added has an id above every id already there.
C4_AppendOnly ==
    [][/\ Len(db'.rows) >= Len(db.rows)
       /\ SubSeq(db'.rows, 1, Len(db.rows)) = db.rows
       /\ \A n \in (Len(db.rows) + 1)..Len(db'.rows) :
             \A m \in 1..Len(db.rows) : db'.rows[n].id > db.rows[m].id]_vars

\* A run began on a table that held rows (init_db on an existing table) and
\* appended to it.
C4_Witness ==
    /\ pc = "idle"
    /\ Len(db0.rows) > 0
    /\ Len(db.rows) > Len(db0.rows)

\* C5: every call of insert_data_to_db that returns adds as many rows as it
\* was given records: the table has grown by the total number of records of
\* the calls of the run, also when two calls were given the same records.
C5_InsertAddsEveryRecord ==
    Len(db.rows) = Len(db0.rows) + Len(Flatten(log))

\* Two calls in a row with the same two records added four rows.
C5_Witness ==
    /\ Len(log) = 2
    /\ log[1] = log[2]
    /\ Len(log[1]) = 2
    /\ Len(db.rows) = Len(db0.rows) + 4

\* A row passes a filter when the filter is empty or one of the selected
\* values occurs in the row's field.
Passes(r) ==
    /\ (sector_filter # {} => \E v \in sector_filter : Contains(r.sectors, v))
    /\ (geo_filter # {} => \E v \in geo_filter : Contains(r.geographies, v))

\* C6: the table shown holds exactly the stored rows that pass both filters,
\* in the order of the table.
C6_ShownRowsPassFilters ==
    pc = "idle" =>
        LET passing == SelectSeq(db.rows, Passes)
        IN  displayed = [n \in 1..Len(passing) |-> shown(passing[n])]

\* Both filters are set and keep some rows while dropping others; one of the
\* rows kept holds the selected geography inside a longer field.
C6_Witness ==
    /\ pc = "idle"
    /\ sector_filter # {}
    /\ geo_filter # {}
    /\ Len(displayed) > 0
    /\ Len(displayed) < Len(db.rows)
    /\ \E n \in 1..Len(displayed) : displayed[n].geographies \notin geo_filter

\* C7: for the example text the call returns one record, with fund "Sequoia
\* Capital", the whole range "$500,000 to $1 million" as ticket_size, stage
\* "seed", sectors "fintech" and geographies "India".
C7_ExampleRecord ==
    (pc = "returned" /\ in_text = ExampleText) =>
        /\ Len(out) = 1
        /\ out[1].fund = "Sequoia Capital"
        /\ out[1].ticket_size = "$500,000 to $1 million"
        /\ out[1].stage = "seed"
        /\ out[1].sectors = "fintech"
        /\ out[1].geographies = "India"

\* The text of the first match of fund_size_pattern: the dollar amount with
\* its unit; None when the pattern matches nowhere.
FirstFundAmount(text) ==
    LET i == FundSizeStart(text)
    IN  IF i = 0 THEN None ELSE SubSeq(text, i, FundSizeMatch(text, i)[1] - 1)

\* C8: the fund_size of every record is the first dollar amount with a unit
\* that "fund" follows (the amount, not its unit alone), None without one.
C8_FundSizeIsAmount ==
    pc = "returned" => \A n \in 1..Len(out) : out[n].fund_size = FirstFundAmount(in_text)

\* What holds once an insert has raised: the run has stopped at article k,
\* the articles before it are in the table on top of what the run found
\* there, and no table is on the page.
CrashedAtK ==
    pc = "crashed" =>
        /\ k <= Len(loop.articles)
        /\ Len(log) = k - 1
        /\ db.rows = RowsAfter(init_db(db0), Flatten(log))
        /\ displayed = NotShown

\* C9: a failing insert ends the run: the rows committed for the articles
\* before it stay, nothing is rendered, and the only step that follows is
\* the start of the next run.
C9_StorageFailureEndsRun ==
    /\ []CrashedAtK
    /\ [][pc = "crashed" => (pc' = "fetch" /\ now' = now + 1)]_vars

\* The insert for the second article raised after the first article's rows
\* were committed.
C9_Witness ==
    /\ pc = "crashed"
    /\ k = 2
    /\ Len(db.rows) > Len(db0.rows)

\* C10: no row is written while URLs are still being fetched, and when a run
\* completes the table is what it was, followed by the records extracted
\* from each fetched article, article by article in the order of the input:
\* one article per non-blank line that was fetched, repeated lines included.
C10_FetchThenAppendInOrder ==
    /\ (pc = "fetch" => (db.rows = db0.rows /\ log = <<>>))
    /\ (pc = "idle" =>
          /\ Len(outcomes) = NonBlankCount(url_input)
          /\ ArticleUrls = Pick(urls, outcomes, "ok")
          /\ Len(log) = Len(loop.articles)
          /\ \A j \in 1..Len(log) :
                \E fundlist \in funds(loop.articles[j].text) :
                   log[j] = extract_data_from_text(loop.articles[j].text, loop.articles[j].url,
                                                   fundlist, now)
          /\ db.rows = RowsAfter(init_db(db0), Flatten(log)))

\* The same URL on two lines, fetched twice, gave two blocks of rows after
\* the rows the table already held.
C10_Witness ==
    /\ pc = "idle"
    /\ Len(db0.rows) > 0
    /\ Len(log) = 2
    /\ loop.articles[1].url = loop.articles[2].url
    /\ log[1] # <<>>
    /\ log[2] # <<>>

====
